---- MODULE Spec2Model ----
(***************************************************************************)
(* Model of the Radleys Carousel Connect hotplate driver                   *)
(* (PyLabware/devices/radleys_RR91207.py).                                 *)
(*                                                                         *)
(* The facade methods are translated from the driver source.  The          *)
(* dispatcher `send`, the validator, the frame codec, the reply slicer,    *)
(* the simulation decorator and the connection transport live in other     *)
(* modules of the package (controllers, parsers, connections); they are    *)
(* modelled from the written specification (sections 4.1 - 4.5, 6).        *)
(* The instrument itself is the environment: every call draws the status   *)
(* code and the reading the device holds, and the transport fault, from    *)
(* small sets.                                                             *)
(***************************************************************************)
EXTENDS Integers, Sequences, FiniteSets, TLC

VARIABLES
    simulation,   \* device object constructed in simulation mode
    connOpen,     \* connection.open_connection() has succeeded
    initialized,  \* initialize_device() has run to its end ("Device initialised")
    heating,      \* instrument side: temperature regulation is on
    stirring,     \* instrument side: stirring is on
    devStatus,    \* status code the instrument held during the last call
    devReading,   \* reading (in tenths) the instrument held during the last call
    devMode,      \* mode value the instrument held during the last call
    last          \* the last facade call: op, argument, fault, outcome, transport I/O

vars == <<simulation, connOpen, initialized, heating, stirring,
          devStatus, devReading, devMode, last>>

(***************************************************************************)
(* Bounds of the model                                                     *)
(***************************************************************************)
\* status codes the instrument may report: -MaxCode .. MaxCode
MaxCode == 3
\* readings the instrument may report, in tenths: 0, ReadingStep, .. , MaxReadingIdx * ReadingStep
MaxReadingIdx == 4
ReadingStep == 37
\* integer arguments tried on set_temperature: within ArgMargin of each bound, and 150
ArgMargin == 2
\* sensor selectors tried on get_temperature: -1 .. MaxSensor
MaxSensor == 2
\* mode values the instrument may report, and mode arguments tried: -1 .. MaxMode
MaxMode == 2

StatusCodes == (0 - MaxCode) .. MaxCode
Readings == {ReadingStep * k : k \in 0 .. MaxReadingIdx}
Sensors == (0 - 1) .. MaxSensor
Modes == (0 - 1) .. MaxMode

(***************************************************************************)
(* Python values: tagged, so that values of different types compare        *)
(***************************************************************************)
NoneV == [t |-> "none", v |-> "None"]
IntV(n) == [t |-> "int", v |-> n]
\* a float is kept in tenths
FloatV(n) == [t |-> "float", v |-> n]
StrV(s) == [t |-> "str", v |-> s]
BoolV(b) == [t |-> "bool", v |-> b]
\* a bound method object (an attribute read without a call)
MethodV(name) == [t |-> "method", v |-> name]

\* Python ==  between a value and an int literal
PyEqInt(val, n) ==
    \/ val.t = "int" /\ val.v = n
    \/ val.t = "float" /\ val.v = 10 * n
    \/ val.t = "bool" /\ n = (IF val.v THEN 1 ELSE 0)

\* str(x) of a float kept in tenths, x >= 0
FormatFloat(n) == ToString(n \div 10) \o "." \o ToString(n % 10)

\* str(x)
PyStr(val) ==
    CASE val.t = "int" -> ToString(val.v)
      [] val.t = "float" -> FormatFloat(val.v)
      [] OTHER -> val.v

(***************************************************************************)
(* Command descriptors (RadleysCarouselConnectCommands)                    *)
(***************************************************************************)
\* a descriptor: name, argument type, inclusive bounds, reply type and slice offset
Cmd(name, type, hasCheck, min, max, hasReply, rtype, hasParser, start) ==
    [name |-> name, type |-> type, hasCheck |-> hasCheck, min |-> min, max |-> max,
     hasReply |-> hasReply, rtype |-> rtype, hasParser |-> hasParser, start |-> start]

\* the driver template's placeholder name left in place
DEFAULT_NAME_Template == "NEW_DEVICE"
DEFAULT_NAME == "Radleys Carousel Connect"

\* TEMP_MODE = {0: "PRECISE", 1: "FAST"}
TEMP_MODE == [k \in 0 .. 1 |-> IF k = 0 THEN "PRECISE" ELSE "FAST"]
\* RESET_MODE = {0: "ALL OFF", 1: "ALL ON"}
RESET_MODE == [k \in 0 .. 1 |-> IF k = 0 THEN "ALL OFF" ELSE "ALL ON"]
\* STATUS = {-1: "REMOTE BLOCKED", 0: "MANUAL", 1: "REMOTE START", 2: "REMOTE STOP"}
STATUS == [k \in (0 - 1) .. 2 |->
             CASE k = 0 - 1 -> "REMOTE BLOCKED"
               [] k = 0 -> "MANUAL"
               [] k = 1 -> "REMOTE START"
               [] k = 2 -> "REMOTE STOP"]

\* upper bound off by one
SET_TEMP_Max301 == Cmd("OUT_SP_1", "int", TRUE, 20, 301, TRUE, "float", TRUE, 9)
SET_TEMP == Cmd("OUT_SP_1", "int", TRUE, 20, 300, TRUE, "float", TRUE, 9)
SET_SPEED == Cmd("OUT_SP_3", "float", TRUE, 100, 1400, TRUE, "str", TRUE, 9)
SET_RESET_MODE == Cmd("OUT_MODE_2", "int", TRUE, 0, 1, TRUE, "str", TRUE, 0)
SET_TEMP_MODE == Cmd("OUT_MODE_4", "int", TRUE, 0, 1, TRUE, "str", TRUE, 0)
START_HEAT == Cmd("START_1", "none", FALSE, 0, 0, TRUE, "str", FALSE, 0)
\* copy of START_HEAT with the name not changed
START_STIR_AsHeat == Cmd("START_1", "none", FALSE, 0, 0, TRUE, "str", FALSE, 0)
START_STIR == Cmd("START_2", "none", FALSE, 0, 0, TRUE, "str", FALSE, 0)
STOP_HEAT == Cmd("STOP_1", "none", FALSE, 0, 0, TRUE, "str", FALSE, 0)
STOP_STIR == Cmd("STOP_2", "none", FALSE, 0, 0, TRUE, "str", FALSE, 0)
RESET == Cmd("RESET", "none", FALSE, 0, 0, FALSE, "none", FALSE, 0)
GET_PROBE_TEMP == Cmd("IN_PV_1", "none", FALSE, 0, 0, TRUE, "float", TRUE, 8)
GET_HOTPLATE_TEMP == Cmd("IN_PV_3", "none", FALSE, 0, 0, TRUE, "float", TRUE, 8)
GET_STIR_SPEED == Cmd("IN_PV_5", "none", FALSE, 0, 0, TRUE, "float", TRUE, 8)
GET_SET_TEMP == Cmd("IN_SP_1", "none", FALSE, 0, 0, TRUE, "float", TRUE, 8)
GET_SET_TEMP_SAFETY_DELTA == Cmd("IN_SP_2", "none", FALSE, 0, 0, TRUE, "float", TRUE, 8)
GET_SET_MOTOR_SPEED == Cmd("IN_SP_3", "none", FALSE, 0, 0, TRUE, "float", TRUE, 8)
QUERY_TEMP_SENSOR_TYPE == Cmd("IN_MODE_1", "int", FALSE, 0, 0, TRUE, "int", TRUE, 10)
QUERY_RESET_MODE == Cmd("IN_MODE_2", "int", FALSE, 0, 0, TRUE, "int", TRUE, 10)
QUERY_TEMP_MODE == Cmd("IN_MODE_4", "int", FALSE, 0, 0, TRUE, "int", TRUE, 10)
QUERY_STATUS == Cmd("STATUS", "int", FALSE, 0, 0, TRUE, "int", TRUE, 7)
PROTOCOL_NEW == Cmd("PA_NEW", "none", FALSE, 0, 0, TRUE, "str", FALSE, 0)
CHECK_CONNECTION_ON == Cmd("CC_ON", "none", FALSE, 0, 0, TRUE, "str", FALSE, 0)
CHECK_CONNECTION_OFF == Cmd("CC_OFF", "none", FALSE, 0, 0, TRUE, "str", FALSE, 0)

\* protocol settings fixed by the constructor
command_terminator == "\r\n"
reply_terminator == "\r\n"
args_delimiter == " "

(***************************************************************************)
(* Validator, frame codec and dispatcher (package code outside the driver) *)
(***************************************************************************)
\* a number in tenths, whatever its type
Tenths(arg) == IF arg.t = "float" THEN arg.v ELSE 10 * arg.v

\* Validator: TRUE iff the argument is accepted for the descriptor; an integer
\* satisfies a real argument type, a real does not satisfy an integer one
Validate(cmd, arg) ==
    /\ cmd.type # "none"
    /\ \/ arg.t = cmd.type
       \/ cmd.type = "float" /\ arg.t = "int"
    /\ cmd.hasCheck => (Tenths(arg) >= 10 * cmd.min /\ Tenths(arg) <= 10 * cmd.max)

\* the validated argument in the descriptor's type
Coerce(cmd, arg) ==
    IF cmd.type = "float" /\ arg.t = "int" THEN FloatV(10 * arg.v) ELSE arg

\* Encode: name [delimiter argument] terminator
Encode(cmd, hasArg, arg) ==
    cmd.name \o (IF hasArg THEN args_delimiter \o PyStr(Coerce(cmd, arg)) ELSE "")
             \o command_terminator

\* parser.slicer(reply, start, None): reply[start:]
slicer(line, start) ==
    IF start >= Len(line) THEN "" ELSE SubSeq(line, start + 1, Len(line))

\* int(text): defined on the decimal numerals of the status codes
CanInt(text) == \E n \in StatusCodes : ToString(n) = text
ToInt(text) == CHOOSE n \in StatusCodes : ToString(n) = text

\* float(text), in tenths: "2.5" and "2" are both numerals
CanFloat(text) ==
    \/ \E n \in Readings : FormatFloat(n) = text
    \/ \E n \in Readings : ToString(n) = text
ToFloat(text) ==
    IF \E n \in Readings : FormatFloat(n) = text
    THEN CHOOSE n \in Readings : FormatFloat(n) = text
    ELSE 10 * (CHOOSE n \in Readings : ToString(n) = text)

\* Decode: slice by the descriptor's offset, then cast to the reply type
CanDecode(cmd, line) ==
    LET text == IF cmd.hasParser THEN slicer(line, cmd.start) ELSE line
    IN CASE cmd.rtype = "int" -> CanInt(text)
         [] cmd.rtype = "float" -> CanFloat(text)
         [] OTHER -> TRUE
Decode(cmd, line) ==
    LET text == IF cmd.hasParser THEN slicer(line, cmd.start) ELSE line
    IN CASE cmd.rtype = "int" -> IntV(ToInt(text))
         [] cmd.rtype = "float" -> FloatV(ToFloat(text))
         [] OTHER -> StrV(text)

\* what one connection does to a command during a call
Faults == {"none", "write", "read", "garbled"}

\* the reply line the instrument puts on the wire: the command echoed, then the value
\* (status is the integer the instrument holds for the query: a status code or a mode)
DeviceReply(cmd, status, reading) ==
    CASE cmd.rtype = "int" -> cmd.name \o " " \o ToString(status)
      [] cmd.rtype = "float" -> cmd.name \o " " \o FormatFloat(reading)
      [] OTHER -> cmd.name

\* the line the transport hands over (terminator stripped)
ReadLine(cmd, fault, status, reading) ==
    IF fault = "garbled" THEN "?" ELSE DeviceReply(cmd, status, reading)

\* outcome of a call: exception class ("none" when it returned), value, transport I/O
Out(exc, value, io) == [exc |-> exc, value |-> value, io |-> io]

\* send(cmd, arg): validate, encode, write, read one line, decode
send(cmd, hasArg, arg, fault, status, reading) ==
    LET frame == Encode(cmd, hasArg, arg)
        line == ReadLine(cmd, fault, status, reading)
    IN IF hasArg /\ ~Validate(cmd, arg)
       THEN Out("InvalidArgument", NoneV, <<>>)
       ELSE IF fault = "write"
       THEN Out("ConnectionError", NoneV, <<>>)
       ELSE IF fault = "read"
       THEN Out("ConnectionError", NoneV, <<<<"write", frame>>>>)
       ELSE IF ~cmd.hasReply
       THEN Out("none", NoneV, <<<<"write", frame>>, <<"read", line>>>>)
       ELSE IF ~CanDecode(cmd, line)
       THEN Out("MalformedReply", NoneV, <<<<"write", frame>>, <<"read", line>>>>)
       ELSE Out("none", Decode(cmd, line), <<<<"write", frame>>, <<"read", line>>>>)

\* in_simulation_device_returns(value): the wrapped body is not run in simulation
in_simulation_device_returns(sim, value, body) ==
    IF sim THEN Out("none", value, <<>>) ELSE body

\* the instrument's reaction to a frame it received
DeviceHeating(io, h) ==
    IF io # <<>> /\ io[1] = <<"write", "START_1\r\n">> THEN TRUE
    ELSE IF io # <<>> /\ io[1] = <<"write", "STOP_1\r\n">> THEN FALSE
    ELSE h
DeviceStirring(io, s) ==
    IF io # <<>> /\ io[1] = <<"write", "START_2\r\n">> THEN TRUE
    ELSE IF io # <<>> /\ io[1] = <<"write", "STOP_2\r\n">> THEN FALSE
    ELSE s

\* faults the transport can show: nothing can be written on a connection that is not open
TransportFaults(open) == IF open THEN Faults ELSE {"write"}

(***************************************************************************)
(* Facade methods (RadleysCarouselConnect)                                 *)
(***************************************************************************)
initialize_device(openOk, fault, status, reading) ==
    IF ~openOk
    THEN Out("ConnectionError", NoneV, <<>>)
    ELSE LET r == send(PROTOCOL_NEW, FALSE, NoneV, fault, status, reading)
         IN Out(r.exc, NoneV, <<<<"open">>>> \o r.io)

\* the elif reply < -1 branch left out
is_connected_body_NoErrorBranch(fault, status, reading) ==
    LET r == send(QUERY_STATUS, FALSE, NoneV, fault, status, reading)
    IN IF r.exc = "ConnectionError" THEN Out("none", BoolV(FALSE), r.io)
       ELSE IF r.exc # "none" THEN r
       ELSE IF PyEqInt(r.value, 0 - 1) THEN Out("none", BoolV(FALSE), r.io)
       ELSE Out("none", BoolV(TRUE), r.io)

is_connected_body(fault, status, reading) ==
    LET r == send(QUERY_STATUS, FALSE, NoneV, fault, status, reading)
    IN IF r.exc = "ConnectionError" THEN Out("none", BoolV(FALSE), r.io)
       ELSE IF r.exc # "none" THEN r
       ELSE IF PyEqInt(r.value, 0 - 1) THEN Out("none", BoolV(FALSE), r.io)
       ELSE IF r.value.v < 0 - 1 THEN Out("none", BoolV(FALSE), r.io)
       ELSE Out("none", BoolV(TRUE), r.io)

is_connected(sim, fault, status, reading) ==
    in_simulation_device_returns(sim, StrV(DEFAULT_NAME),
                                 is_connected_body(fault, status, reading))

\* range check 3 >= reply > -2 instead of 3 > reply > -2
get_status_UpperInclusive(fault, status, reading) ==
    LET r == send(QUERY_STATUS, FALSE, NoneV, fault, status, reading)
    IN IF r.exc # "none" THEN r
       ELSE IF 3 >= r.value.v /\ r.value.v > 0 - 2
       THEN IF r.value.v \in DOMAIN STATUS
            THEN Out("none", StrV(STATUS[r.value.v]), r.io)
            ELSE Out("KeyError", NoneV, r.io)
       ELSE Out("none", StrV("ERROR"), r.io)

get_status(fault, status, reading) ==
    LET r == send(QUERY_STATUS, FALSE, NoneV, fault, status, reading)
    IN IF r.exc # "none" THEN r
       ELSE IF 3 > r.value.v /\ r.value.v > 0 - 2
       THEN IF r.value.v \in DOMAIN STATUS
            THEN Out("none", StrV(STATUS[r.value.v]), r.io)
            ELSE Out("KeyError", NoneV, r.io)
       ELSE Out("none", StrV("ERROR"), r.io)

\* reply = self.get_status reads the attribute: the method is not called
is_idle ==
    LET reply == MethodV("get_status")
    IN IF ~PyEqInt(reply, 1)
       THEN Out("none", BoolV(FALSE), <<>>)
       ELSE Out("none", BoolV(TRUE), <<>>)

\* send() whose return value the method drops
Dropped(r) == IF r.exc = "none" THEN Out("none", NoneV, r.io) ELSE r

start_temperature_regulation(fault, status, reading) ==
    Dropped(send(START_HEAT, FALSE, NoneV, fault, status, reading))

stop_temperature_regulation(fault, status, reading) ==
    Dropped(send(STOP_HEAT, FALSE, NoneV, fault, status, reading))

start_stirring(fault, status, reading) ==
    Dropped(send(START_STIR, FALSE, NoneV, fault, status, reading))

stop_stirring(fault, status, reading) ==
    Dropped(send(STOP_STIR, FALSE, NoneV, fault, status, reading))

get_speed(fault, status, reading) ==
    send(GET_STIR_SPEED, FALSE, NoneV, fault, status, reading)

get_speed_setpoint(fault, status, reading) ==
    send(GET_SET_MOTOR_SPEED, FALSE, NoneV, fault, status, reading)

set_temperature(temperature, fault, status, reading) ==
    Dropped(send(SET_TEMP, TRUE, temperature, fault, status, reading))

get_temperature_setpoint(fault, status, reading) ==
    send(GET_SET_TEMP, FALSE, NoneV, fault, status, reading)

\* both selectors read the hotplate sensor
get_temperature_SameSensor(sensor, fault, status, reading) ==
    IF sensor = 0
    THEN send(GET_HOTPLATE_TEMP, FALSE, NoneV, fault, status, reading)
    ELSE IF sensor = 1
    THEN send(GET_HOTPLATE_TEMP, FALSE, NoneV, fault, status, reading)
    ELSE Out("DeviceCommandError", NoneV, <<>>)

get_temperature(sensor, fault, status, reading) ==
    IF sensor = 0
    THEN send(GET_HOTPLATE_TEMP, FALSE, NoneV, fault, status, reading)
    ELSE IF sensor = 1
    THEN send(GET_PROBE_TEMP, FALSE, NoneV, fault, status, reading)
    ELSE Out("DeviceCommandError", NoneV, <<>>)

get_temperature_safety_delta(fault, status, reading) ==
    Dropped(send(GET_SET_TEMP_SAFETY_DELTA, FALSE, NoneV, fault, status, reading))

\* the string returned is chosen by reply == 0 alone
get_sensor_type(fault, mode) ==
    LET r == send(QUERY_TEMP_SENSOR_TYPE, FALSE, NoneV, fault, mode, 0)
    IN IF r.exc # "none" THEN r
       ELSE IF PyEqInt(r.value, 0) THEN Out("none", StrV("HOTPLATE (0)"), r.io)
       ELSE Out("none", StrV("PROBE (1)"), r.io)

set_speed(speed, fault) ==
    Dropped(send(SET_SPEED, TRUE, speed, fault, 0, 0))

set_reset_mode(mode, fault) ==
    Dropped(send(SET_RESET_MODE, TRUE, mode, fault, 0, 0))

\* RESET_MODE[reply]: a dict lookup, KeyError outside the table
get_reset_mode(fault, mode) ==
    LET r == send(QUERY_RESET_MODE, FALSE, NoneV, fault, mode, 0)
    IN IF r.exc # "none" THEN r
       ELSE IF r.value.v \in DOMAIN RESET_MODE
       THEN Out("none", StrV(RESET_MODE[r.value.v]), r.io)
       ELSE Out("KeyError", NoneV, r.io)

set_heat_mode(mode, fault) ==
    Dropped(send(SET_TEMP_MODE, TRUE, mode, fault, 0, 0))

\* TEMP_MODE[reply]: a dict lookup, KeyError outside the table
get_heat_mode(fault, mode) ==
    LET r == send(QUERY_TEMP_MODE, FALSE, NoneV, fault, mode, 0)
    IN IF r.exc # "none" THEN r
       ELSE IF r.value.v \in DOMAIN TEMP_MODE
       THEN Out("none", StrV(TEMP_MODE[r.value.v]), r.io)
       ELSE Out("KeyError", NoneV, r.io)

reset(fault) ==
    Dropped(send(RESET, FALSE, NoneV, fault, 0, 0))

set_connection_check_on(fault) ==
    Dropped(send(CHECK_CONNECTION_ON, FALSE, NoneV, fault, 0, 0))

set_connection_check_off(fault) ==
    Dropped(send(CHECK_CONNECTION_OFF, FALSE, NoneV, fault, 0, 0))

\* check_errors / clear_errors: not supported, an empty body
check_errors == Out("none", NoneV, <<>>)
clear_errors == Out("none", NoneV, <<>>)

(***************************************************************************)
(* State machine: one action per facade call                               *)
(***************************************************************************)
\* arguments tried on set_temperature: integers, and two floats (25.0 and 150.5)
TempArgs ==
    {IntV(n) : n \in ((SET_TEMP.min - ArgMargin) .. (SET_TEMP.min + ArgMargin))
                     \cup {150}
                     \cup ((SET_TEMP.max - ArgMargin) .. (SET_TEMP.max + ArgMargin))}
    \cup {FloatV(250), FloatV(1505)}

\* arguments tried on set_speed: reals around each bound, 500.0, and the integer 500
SpeedArgs ==
    {FloatV(n) : n \in ((10 * SET_SPEED.min - ArgMargin) .. (10 * SET_SPEED.min + ArgMargin))
                       \cup {5000}
                       \cup ((10 * SET_SPEED.max - ArgMargin) .. (10 * SET_SPEED.max + ArgMargin))}
    \cup {IntV(500)}

Record(op, arg, fault, r) ==
    [op |-> op, arg |-> arg, fault |-> fault, exc |-> r.exc, value |-> r.value, io |-> r.io]

Init ==
    /\ simulation \in BOOLEAN
    /\ connOpen = FALSE
    /\ initialized = FALSE
    /\ heating = FALSE
    /\ stirring = FALSE
    /\ devStatus = 0
    /\ devReading = 0
    /\ devMode = 0
    /\ last = Record("construct", NoneV, "none", Out("none", NoneV, <<>>))

\* a call that neither opens the connection nor completes the initialisation
Call(op, arg, fault, status, reading, r) ==
    /\ last' = Record(op, arg, fault, r)
    /\ devStatus' = status
    /\ devReading' = reading
    /\ devMode' = 0
    /\ heating' = DeviceHeating(r.io, heating)
    /\ stirring' = DeviceStirring(r.io, stirring)
    /\ UNCHANGED <<simulation, connOpen, initialized>>

\* a call that queries a mode of the instrument
ModeCall(op, fault, mode, r) ==
    /\ last' = Record(op, NoneV, fault, r)
    /\ devStatus' = 0
    /\ devReading' = 0
    /\ devMode' = mode
    /\ heating' = DeviceHeating(r.io, heating)
    /\ stirring' = DeviceStirring(r.io, stirring)
    /\ UNCHANGED <<simulation, connOpen, initialized>>

InitializeDevice ==
    \E openOk \in BOOLEAN, fault \in Faults :
        LET r == initialize_device(openOk, fault, 0, 0)
        IN /\ last' = Record("initialize_device", NoneV, fault, r)
           /\ connOpen' = (connOpen \/ openOk)
           /\ initialized' = (initialized \/ r.exc = "none")
           /\ devStatus' = 0
           /\ devReading' = 0
           /\ devMode' = 0
           /\ UNCHANGED <<simulation, heating, stirring>>

IsConnected ==
    \E fault \in TransportFaults(connOpen), status \in StatusCodes :
        Call("is_connected", NoneV, fault, status, 0,
             is_connected(simulation, fault, status, 0))

IsIdle ==
    \E fault \in TransportFaults(connOpen), status \in StatusCodes :
        Call("is_idle", NoneV, fault, status, 0, is_idle)

GetStatus ==
    \E fault \in TransportFaults(connOpen), status \in StatusCodes :
        Call("get_status", NoneV, fault, status, 0,
             get_status(fault, status, 0))

StartTemperatureRegulation ==
    \E fault \in TransportFaults(connOpen) :
        Call("start_temperature_regulation", NoneV, fault, 0, 0,
             start_temperature_regulation(fault, 0, 0))

StopTemperatureRegulation ==
    \E fault \in TransportFaults(connOpen) :
        Call("stop_temperature_regulation", NoneV, fault, 0, 0,
             stop_temperature_regulation(fault, 0, 0))

StartStirring ==
    \E fault \in TransportFaults(connOpen) :
        Call("start_stirring", NoneV, fault, 0, 0,
             start_stirring(fault, 0, 0))

StopStirring ==
    \E fault \in TransportFaults(connOpen) :
        Call("stop_stirring", NoneV, fault, 0, 0,
             stop_stirring(fault, 0, 0))

GetSpeed ==
    \E fault \in TransportFaults(connOpen), reading \in Readings :
        Call("get_speed", NoneV, fault, 0, reading,
             get_speed(fault, 0, reading))

GetSpeedSetpoint ==
    \E fault \in TransportFaults(connOpen), reading \in Readings :
        Call("get_speed_setpoint", NoneV, fault, 0, reading,
             get_speed_setpoint(fault, 0, reading))

SetTemperature ==
    \E t \in TempArgs, fault \in TransportFaults(connOpen) :
        Call("set_temperature", t, fault, 0, 0,
             set_temperature(t, fault, 0, 0))

GetTemperatureSetpoint ==
    \E fault \in TransportFaults(connOpen), reading \in Readings :
        Call("get_temperature_setpoint", NoneV, fault, 0, reading,
             get_temperature_setpoint(fault, 0, reading))

GetTemperature ==
    \E sensor \in Sensors, fault \in TransportFaults(connOpen),
       reading \in Readings :
        Call("get_temperature", IntV(sensor), fault, 0, reading,
             get_temperature(sensor, fault, 0, reading))

GetTemperatureSafetyDelta ==
    \E fault \in TransportFaults(connOpen), reading \in Readings :
        Call("get_temperature_safety_delta", NoneV, fault, 0, reading,
             get_temperature_safety_delta(fault, 0, reading))

CheckErrors ==
    \E fault \in TransportFaults(connOpen) :
        Call("check_errors", NoneV, fault, 0, 0, check_errors)

ClearErrors ==
    \E fault \in TransportFaults(connOpen) :
        Call("clear_errors", NoneV, fault, 0, 0, clear_errors)

SetSpeed ==
    \E speed \in SpeedArgs, fault \in TransportFaults(connOpen) :
        Call("set_speed", speed, fault, 0, 0, set_speed(speed, fault))

GetSensorType ==
    \E fault \in TransportFaults(connOpen), mode \in Modes :
        ModeCall("get_sensor_type", fault, mode, get_sensor_type(fault, mode))

SetResetMode ==
    \E mode \in Modes, fault \in TransportFaults(connOpen) :
        Call("set_reset_mode", IntV(mode), fault, 0, 0, set_reset_mode(IntV(mode), fault))

GetResetMode ==
    \E fault \in TransportFaults(connOpen), mode \in Modes :
        ModeCall("get_reset_mode", fault, mode, get_reset_mode(fault, mode))

SetHeatMode ==
    \E mode \in Modes, fault \in TransportFaults(connOpen) :
        Call("set_heat_mode", IntV(mode), fault, 0, 0, set_heat_mode(IntV(mode), fault))

GetHeatMode ==
    \E fault \in TransportFaults(connOpen), mode \in Modes :
        ModeCall("get_heat_mode", fault, mode, get_heat_mode(fault, mode))

\* what RESET does to the instrument's heating and stirring is not known: once
\* the frame is on the wire, either may be on or off afterwards
Reset ==
    \E fault \in TransportFaults(connOpen), h \in BOOLEAN, s \in BOOLEAN :
        LET r == reset(fault)
        IN /\ last' = Record("reset", NoneV, fault, r)
           /\ devStatus' = 0
           /\ devReading' = 0
           /\ devMode' = 0
           /\ heating' = (IF Len(r.io) > 0 THEN h ELSE heating)
           /\ stirring' = (IF Len(r.io) > 0 THEN s ELSE stirring)
           /\ UNCHANGED <<simulation, connOpen, initialized>>

SetConnectionCheckOn ==
    \E fault \in TransportFaults(connOpen) :
        Call("set_connection_check_on", NoneV, fault, 0, 0, set_connection_check_on(fault))

SetConnectionCheckOff ==
    \E fault \in TransportFaults(connOpen) :
        Call("set_connection_check_off", NoneV, fault, 0, 0, set_connection_check_off(fault))

Next ==
    \/ InitializeDevice
    \/ IsConnected
    \/ IsIdle
    \/ GetStatus
    \/ StartTemperatureRegulation
    \/ StopTemperatureRegulation
    \/ StartStirring
    \/ StopStirring
    \/ GetSpeed
    \/ GetSpeedSetpoint
    \/ SetTemperature
    \/ GetTemperatureSetpoint
    \/ GetTemperature
    \/ GetTemperatureSafetyDelta
    \/ CheckErrors
    \/ ClearErrors
    \/ SetSpeed
    \/ GetSensorType
    \/ SetResetMode
    \/ GetResetMode
    \/ SetHeatMode
    \/ GetHeatMode
    \/ Reset
    \/ SetConnectionCheckOn
    \/ SetConnectionCheckOff

Spec == Init /\ [][Next]_vars

(***************************************************************************)
(* Properties                                                              *)
(***************************************************************************)
\* the frames written during a call
Writes(io) == SelectSeq(io, LAMBDA e : e[1] = "write")

\* C1: is_idle() returns true if and only if the status code the instrument
\* reports equals 1 (REMOTE START), and false for every other code.
C1_IsIdleIffRemoteStart ==
    last.op = "is_idle" =>
        /\ last.exc = "none"
        /\ (last.value = BoolV(TRUE)) <=> (devStatus = 1)

\* C2: when the status query succeeds with the integer reply r, get_status()
\* returns "REMOTE BLOCKED" for -1, "MANUAL" for 0, "REMOTE START" for 1,
\* "REMOTE STOP" for 2, and "ERROR" for every r <= -2 and every r >= 3; the
\* table lookup never fails.
C2_StatusDecodeTable ==
    (last.op = "get_status" /\ last.fault = "none") =>
        /\ last.exc = "none"
        /\ last.value =
             StrV(CASE devStatus = 0 - 1 -> "REMOTE BLOCKED"
                    [] devStatus = 0 -> "MANUAL"
                    [] devStatus = 1 -> "REMOTE START"
                    [] devStatus = 2 -> "REMOTE STOP"
                    [] OTHER -> "ERROR")

\* C2 witness: the boundary reply 3 has been decoded to "ERROR"
C2_Witness ==
    /\ last.op = "get_status"
    /\ last.fault = "none"
    /\ devStatus = 3
    /\ last.value = StrV("ERROR")

\* C3: get_status() never raises: whatever the transport does, it returns a
\* status string.
C3_GetStatusNeverRaises ==
    last.op = "get_status" =>
        /\ last.exc = "none"
        /\ last.value.t = "str"

\* C4: outside simulation mode, is_connected() returns false without raising
\* when the transport raises ConnectionError, and returns true only when the
\* status query succeeded with a status code >= 0.
C4_IsConnectedProbe ==
    (last.op = "is_connected" /\ ~simulation) =>
        /\ last.fault \in {"write", "read"} =>
               (last.exc = "none" /\ last.value = BoolV(FALSE))
        /\ last.value = BoolV(TRUE) =>
               (last.exc = "none" /\ last.fault = "none" /\ devStatus >= 0)

\* C4 witness: a reply timeout during the status query was turned into false
C4_Witness ==
    /\ last.op = "is_connected"
    /\ ~simulation
    /\ last.fault = "read"
    /\ last.exc = "none"
    /\ last.value = BoolV(FALSE)

\* C5: set_temperature(t) writes a frame only if t is an integer with
\* 20 <= t <= 300, and does write one for every such t unless the write itself
\* fails; every other t fails with InvalidArgument and nothing is written;
\* the frame for t is "OUT_SP_1 <t>\r\n", for 150 exactly "OUT_SP_1 150\r\n".
C5_SetTemperatureBounds ==
    last.op = "set_temperature" =>
        LET ok == last.arg.t = "int" /\ last.arg.v >= 20 /\ last.arg.v <= 300
        IN /\ ~ok => (last.exc = "InvalidArgument" /\ last.io = <<>>)
           /\ (ok /\ last.fault # "write") =>
                  /\ Len(Writes(last.io)) = 1
                  /\ last.io[1] = <<"write", "OUT_SP_1 " \o ToString(last.arg.v) \o "\r\n">>
           /\ (ok /\ last.arg.v = 150 /\ last.fault # "write") =>
                  last.io[1] = <<"write", "OUT_SP_1 150\r\n">>
           /\ Writes(last.io) # <<>> => ok

\* C5 witness: set_temperature(150) wrote its frame
C5_Witness ==
    /\ last.op = "set_temperature"
    /\ last.arg = IntV(150)
    /\ last.io # <<>>
    /\ last.io[1] = <<"write", "OUT_SP_1 150\r\n">>

\* C6: get_temperature(sensor) issues exactly one command, IN_PV_3 for sensor
\* 0 and IN_PV_1 for sensor 1; for every other sensor it fails with a
\* device-command error and sends nothing.
C6_GetTemperatureSensor ==
    last.op = "get_temperature" =>
        /\ Len(Writes(last.io)) <= 1
        /\ (last.arg.v = 0 /\ last.fault # "write") =>
               Writes(last.io) = <<<<"write", "IN_PV_3\r\n">>>>
        /\ (last.arg.v = 1 /\ last.fault # "write") =>
               Writes(last.io) = <<<<"write", "IN_PV_1\r\n">>>>
        /\ last.arg.v \notin {0, 1} =>
               (last.exc = "DeviceCommandError" /\ last.io = <<>>)

\* C6 witness: the external probe was read with one IN_PV_1 command
C6_Witness ==
    /\ last.op = "get_temperature"
    /\ last.arg = IntV(1)
    /\ last.exc = "none"
    /\ Writes(last.io) = <<<<"write", "IN_PV_1\r\n">>>>

\* C7: initialize_device() opens the connection first and writes the PA_NEW
\* handshake only after the open succeeded; when the open or the handshake
\* fails with ConnectionError the call raises it and the device remains
\* Disconnected: the connection is no more open and the device no more
\* initialised than before the call.
C7_FailureLeavesDisconnected ==
    [][last'.op = "initialize_device" =>
         /\ last'.io # <<>> => last'.io[1] = <<"open">>
         /\ Writes(last'.io) # <<>> =>
                (Len(last'.io) >= 2 /\ last'.io[2] = <<"write", "PA_NEW\r\n">>)
         /\ last'.fault \in {"write", "read"} => last'.exc = "ConnectionError"
         /\ last'.io = <<>> => last'.exc = "ConnectionError"
         /\ last'.exc # "none" =>
                (connOpen' = connOpen /\ initialized' = initialized)]_vars

\* C8: in simulation mode is_connected() returns the declared device name
\* "Radleys Carousel Connect" and neither writes to nor reads from the
\* connection.
C8_SimulationIsConnected ==
    (simulation /\ last.op = "is_connected") =>
        /\ last.exc = "none"
        /\ last.value = StrV("Radleys Carousel Connect")
        /\ last.io = <<>>

\* C8 witness: is_connected() answered in simulation mode on a connection
\* whose transport would have failed
C8_Witness ==
    /\ simulation
    /\ last.op = "is_connected"
    /\ last.fault = "write"
    /\ last.value = StrV("Radleys Carousel Connect")

\* C9: start/stop_temperature_regulation write only START_1 / STOP_1 and leave
\* the stirring state unchanged; start/stop_stirring write only START_2 /
\* STOP_2 and leave the heating state unchanged; a start or stop that reached
\* the instrument sets its own axis.
C9_IndependentAxes ==
    [][/\ last'.op = "start_temperature_regulation" =>
            /\ \A i \in 1 .. Len(Writes(last'.io)) :
                   Writes(last'.io)[i] = <<"write", "START_1\r\n">>
            /\ stirring' = stirring
            /\ last'.fault # "write" => heating'
       /\ last'.op = "stop_temperature_regulation" =>
            /\ \A i \in 1 .. Len(Writes(last'.io)) :
                   Writes(last'.io)[i] = <<"write", "STOP_1\r\n">>
            /\ stirring' = stirring
            /\ last'.fault # "write" => ~heating'
       /\ last'.op = "start_stirring" =>
            /\ \A i \in 1 .. Len(Writes(last'.io)) :
                   Writes(last'.io)[i] = <<"write", "START_2\r\n">>
            /\ heating' = heating
            /\ last'.fault # "write" => stirring'
       /\ last'.op = "stop_stirring" =>
            /\ \A i \in 1 .. Len(Writes(last'.io)) :
                   Writes(last'.io)[i] = <<"write", "STOP_2\r\n">>
            /\ heating' = heating
            /\ last'.fault # "write" => ~stirring']_vars

\* C9 witness: stirring was started on an initialised device that was already
\* heating, and both are on
C9_Witness ==
    /\ initialized
    /\ last.op = "start_stirring"
    /\ last.exc = "none"
    /\ heating
    /\ stirring

\* C10: every temperature/speed getter returns the decoded reading when the
\* instrument replied with a valid reading.
C10_GettersReturnReading ==
    (/\ last.op \in {"get_speed", "get_speed_setpoint", "get_temperature_setpoint",
                     "get_temperature", "get_temperature_safety_delta"}
     /\ last.fault = "none"
     /\ last.op = "get_temperature" => last.arg.v \in {0, 1}) =>
        /\ last.exc = "none"
        /\ last.value = FloatV(devReading)

====
